---- MODULE Spec2Model ----
(***************************************************************************)
(* Model of chess_game.py: the board functions (move generation, legality  *)
(* filter, check oracle, move applier, material evaluator, one-ply move    *)
(* selector) and the Game controller (click, apply_move, check_game_end,   *)
(* ai_move_if_needed, restart) that drives them.                           *)
(***************************************************************************)
EXTENDS Integers, Sequences, FiniteSets, TLC

(***************************************************************************)
(* Configuration                                                           *)
(***************************************************************************)
WIDTH == 640
HEIGHT == 640
ROWS == 8
COLS == 8
TILE_SIZE == WIDTH \div COLS

Rows == 0 .. (ROWS - 1)
Cols == 0 .. (COLS - 1)
Colours == {"w", "b"}
Kinds == {"K", "Q", "R", "B", "N", "P"}

PIECE_VALUES == [K |-> 0, Q |-> 9, R |-> 5, B |-> 3, N |-> 3, P |-> 1]

(***************************************************************************)
(* Data model.  A Piece is a (color, kind) pair; an empty cell (Python     *)
(* None) is the record None; an absent square or move (Python None) is the *)
(* empty tuple.                                                            *)
(***************************************************************************)
Piece(color, kind) == [color |-> color, kind |-> kind]
None == [color |-> "-", kind |-> "-"]
NoSquare == << >>
NoMove == << >>

Range(s) == {s[i] : i \in DOMAIN s}

Opp(color) == IF color = "w" THEN "b" ELSE "w"

(***************************************************************************)
(* initial_board                                                           *)
(***************************************************************************)
initial_board ==
  LET order == <<"R", "N", "B", "Q", "K", "B", "N", "R">>
  IN [r \in Rows |-> [c \in Cols |->
        IF r = 0 THEN Piece("b", order[c + 1])
        ELSE IF r = 7 THEN Piece("w", order[c + 1])
        ELSE IF r = 1 THEN Piece("b", "P")
        ELSE IF r = 6 THEN Piece("w", "P")
        ELSE None]]

in_bounds(r, c) == 0 <= r /\ r < ROWS /\ 0 <= c /\ c < COLS

(***************************************************************************)
(* The squares in the order of "for r in range(ROWS): for c in             *)
(* range(COLS)".                                                           *)
(***************************************************************************)
Squares == [i \in 1 .. (ROWS * COLS) |-> <<(i - 1) \div COLS, (i - 1) % COLS>>]

(***************************************************************************)
(* find_king: the first king of the colour in row-major order, or none.    *)
(***************************************************************************)
find_king(board, color) ==
  LET is_king(sq) ==
        LET p == board[sq[1]][sq[2]]
        IN p # None /\ p.color = color /\ p.kind = "K"
      ks == SelectSeq(Squares, is_king)
  IN IF ks = << >> THEN NoSquare ELSE ks[1]

(***************************************************************************)
(* Per-piece generators.  Each returns the moves it appends, in order.     *)
(***************************************************************************)
\* Variant: no two-step move from the start row.
pawn_moves_single(board, r, c, p) ==
  LET dir == IF p.color = "w" THEN -1 ELSE 1
      nr == r + dir
      forward ==
        IF in_bounds(nr, c) /\ board[nr][c] = None
        THEN <<  <<  <<r, c>>, <<nr, c>>  >>  >>
        ELSE << >>
      capture(dc) ==
        LET nc == c + dc
        IN IF in_bounds(nr, nc) /\ board[nr][nc] # None
              /\ board[nr][nc].color # p.color
           THEN <<  <<  <<r, c>>, <<nr, nc>>  >>  >>
           ELSE << >>
  IN forward \o capture(-1) \o capture(1)

pawn_moves(board, r, c, p) ==
  LET dir == IF p.color = "w" THEN -1 ELSE 1
      start_row == IF p.color = "w" THEN 6 ELSE 1
      nr == r + dir
      nr2 == r + 2 * dir
      forward ==
        IF in_bounds(nr, c) /\ board[nr][c] = None
        THEN <<  <<  <<r, c>>, <<nr, c>>  >>  >> \o
             (IF r = start_row /\ board[nr2][c] = None
              THEN <<  <<  <<r, c>>, <<nr2, c>>  >>  >>
              ELSE << >>)
        ELSE << >>
      capture(dc) ==
        LET nc == c + dc
        IN IF in_bounds(nr, nc) /\ board[nr][nc] # None
              /\ board[nr][nc].color # p.color
           THEN <<  <<  <<r, c>>, <<nr, nc>>  >>  >>
           ELSE << >>
  IN forward \o capture(-1) \o capture(1)

knight_moves(board, r, c, p) ==
  LET jumps == << <<2, 1>>, <<2, -1>>, <<-2, 1>>, <<-2, -1>>,
                  <<1, 2>>, <<1, -2>>, <<-1, 2>>, <<-1, -2>> >>
      targets == [i \in 1 .. Len(jumps) |-> <<r + jumps[i][1], c + jumps[i][2]>>]
      ok(t) == in_bounds(t[1], t[2])
               /\ (board[t[1]][t[2]] = None \/ board[t[1]][t[2]].color # p.color)
      dsts == SelectSeq(targets, ok)
  IN [i \in 1 .. Len(dsts) |-> << <<r, c>>, dsts[i] >>]

\* The while loop of slide_moves along direction d, standing at square at.
RECURSIVE slide_ray(_, _, _, _, _)
slide_ray(board, p, from, at, d) ==
  IF ~in_bounds(at[1], at[2]) THEN << >>
  ELSE IF board[at[1]][at[2]] = None
  THEN << <<from, at>> >> \o slide_ray(board, p, from, <<at[1] + d[1], at[2] + d[2]>>, d)
  ELSE IF board[at[1]][at[2]].color # p.color THEN << <<from, at>> >>
  ELSE << >>

\* The for loop of slide_moves over deltas[i..], in order.
RECURSIVE slide_dirs(_, _, _, _, _)
slide_dirs(board, p, from, deltas, i) ==
  IF i > Len(deltas) THEN << >>
  ELSE slide_ray(board, p, from,
                 <<from[1] + deltas[i][1], from[2] + deltas[i][2]>>, deltas[i])
       \o slide_dirs(board, p, from, deltas, i + 1)

slide_moves(board, r, c, p, deltas) ==
  slide_dirs(board, p, <<r, c>>, deltas, 1)

bishop_moves(board, r, c, p) ==
  slide_moves(board, r, c, p, << <<1, 1>>, <<1, -1>>, <<-1, 1>>, <<-1, -1>> >>)

rook_moves(board, r, c, p) ==
  slide_moves(board, r, c, p, << <<1, 0>>, <<-1, 0>>, <<0, 1>>, <<0, -1>> >>)

\* Variant: the diagonal directions are missing.
queen_moves_straight(board, r, c, p) ==
  slide_moves(board, r, c, p, << <<1, 0>>, <<-1, 0>>, <<0, 1>>, <<0, -1>> >>)

queen_moves(board, r, c, p) ==
  slide_moves(board, r, c, p,
              << <<1, 1>>, <<1, -1>>, <<-1, 1>>, <<-1, -1>>,
                 <<1, 0>>, <<-1, 0>>, <<0, 1>>, <<0, -1>> >>)

king_moves(board, r, c, p) ==
  LET steps == << <<-1, -1>>, <<-1, 0>>, <<-1, 1>>, <<0, -1>>,
                  <<0, 1>>, <<1, -1>>, <<1, 0>>, <<1, 1>> >>
      targets == [i \in 1 .. Len(steps) |-> <<r + steps[i][1], c + steps[i][2]>>]
      ok(t) == in_bounds(t[1], t[2])
               /\ (board[t[1]][t[2]] = None \/ board[t[1]][t[2]].color # p.color)
      dsts == SelectSeq(targets, ok)
  IN [i \in 1 .. Len(dsts) |-> << <<r, c>>, dsts[i] >>]

(***************************************************************************)
(* generate_pseudo_legal_moves: row-major scan of the source squares,      *)
(* skipping empty squares and the other colour's pieces, dispatching on    *)
(* the piece kind.                                                         *)
(***************************************************************************)
piece_moves(board, r, c, p) ==
  IF p.kind = "P" THEN pawn_moves(board, r, c, p)
  ELSE IF p.kind = "N" THEN knight_moves(board, r, c, p)
  ELSE IF p.kind = "B" THEN bishop_moves(board, r, c, p)
  ELSE IF p.kind = "R" THEN rook_moves(board, r, c, p)
  ELSE IF p.kind = "Q" THEN queen_moves(board, r, c, p)
  ELSE IF p.kind = "K" THEN king_moves(board, r, c, p)
  ELSE << >>

\* The moves appended for the source squares srcs[i..], in order.
RECURSIVE pseudo_scan(_, _, _)
pseudo_scan(board, srcs, i) ==
  IF i > Len(srcs) THEN << >>
  ELSE piece_moves(board, srcs[i][1], srcs[i][2], board[srcs[i][1]][srcs[i][2]])
       \o pseudo_scan(board, srcs, i + 1)

generate_pseudo_legal_moves(board, color) ==
  LET own(sq) == board[sq[1]][sq[2]] # None /\ board[sq[1]][sq[2]].color = color
  IN pseudo_scan(board, SelectSeq(Squares, own), 1)

(***************************************************************************)
(* Check / attack oracle                                                   *)
(***************************************************************************)
is_square_attacked(board, target, by_color) ==
  LET moves == generate_pseudo_legal_moves(board, by_color)
  IN \E i \in DOMAIN moves : moves[i][2] = target

\* is_in_check with every return replaced by the one of the missing king.
is_in_check_blind(board, color) == FALSE

is_in_check(board, color) ==
  LET king_pos == find_king(board, color)
  IN IF king_pos = NoSquare THEN FALSE
     ELSE is_square_attacked(board, king_pos, Opp(color))

(***************************************************************************)
(* Object store.  A Python Board is a mutable list object holding          *)
(* references to Piece objects; the store keeps the list objects           *)
(* (boards[ref] is the grid of Piece references, 0 for None) and the Piece *)
(* objects (pieces[id]) apart, so that aliasing between an argument board  *)
(* and a returned board is visible.                                        *)
(***************************************************************************)
new_piece(heap, color, kind) ==
  [heap |-> [heap EXCEPT !.pieces = Append(@, Piece(color, kind))],
   id |-> Len(heap.pieces) + 1]

\* The caller's board as one list object (reference 1) of Piece objects.
store_of(board) ==
  [boards |-> << [r \in Rows |-> [c \in Cols |->
                    IF board[r][c] = None THEN 0 ELSE r * COLS + c + 1]] >>,
   pieces |-> [id \in 1 .. (ROWS * COLS) |->
                 board[(id - 1) \div COLS][(id - 1) % COLS]]]

\* The (color, kind) contents of a list object.
view(heap, ref) ==
  [r \in Rows |-> [c \in Cols |->
     IF heap.boards[ref][r][c] = 0 THEN None
     ELSE heap.pieces[heap.boards[ref][r][c]]]]

\* The Piece objects a list object refers to.
piece_ids(heap, ref) ==
  {heap.boards[ref][r][c] : r \in Rows, c \in Cols} \ {0}

(***************************************************************************)
(* clone_board: a new list with a new Piece(p.color, p.kind) per piece.    *)
(***************************************************************************)
\* Variant: no copy is made, the same list is returned.
clone_board_alias(heap, board) == [heap |-> heap, ref |-> board]

clone_board(heap, board) ==
  LET base == Len(heap.pieces)
      old == heap.boards[board]
      fresh == [i \in 1 .. (ROWS * COLS) |->
                  LET q == old[(i - 1) \div COLS][(i - 1) % COLS]
                  IN IF q = 0 THEN None
                     ELSE Piece(heap.pieces[q].color, heap.pieces[q].kind)]
      grid == [r \in Rows |-> [c \in Cols |->
                 IF old[r][c] = 0 THEN 0 ELSE base + r * COLS + c + 1]]
  IN [heap |-> [boards |-> Append(heap.boards, grid),
                pieces |-> heap.pieces \o fresh],
      ref |-> Len(heap.boards) + 1]

(***************************************************************************)
(* make_move on the store: returns the store after the call and the        *)
(* reference of the returned board.                                        *)
(***************************************************************************)
make_move_store(heap, board, move) ==
  LET r1 == move[1][1]
      c1 == move[1][2]
      r2 == move[2][1]
      c2 == move[2][2]
      cl == clone_board(heap, board)
      newb == cl.ref
      piece == cl.heap.boards[newb][r1][c1]
      h1 == [cl.heap EXCEPT !.boards[newb][r1][c1] = 0]
      h2 == [h1 EXCEPT !.boards[newb][r2][c2] = piece]
      h3 == IF piece # 0 /\ h2.pieces[piece].kind = "P"
               /\ h2.pieces[piece].color = "w" /\ r2 = 0
            THEN LET q == new_piece(h2, "w", "Q")
                 IN [q.heap EXCEPT !.boards[newb][r2][c2] = q.id]
            ELSE h2
      h4 == IF piece # 0 /\ h3.pieces[piece].kind = "P"
               /\ h3.pieces[piece].color = "b" /\ r2 = ROWS - 1
            THEN LET q == new_piece(h3, "b", "Q")
                 IN [q.heap EXCEPT !.boards[newb][r2][c2] = q.id]
            ELSE h3
  IN [heap |-> h4, ref |-> newb]

(***************************************************************************)
(* make_move on board values: the (color, kind) contents of the returned   *)
(* board as a function of the contents of the argument board.              *)
(***************************************************************************)
\* Variant: no promotion.
make_move_no_promotion(board, move) ==
  LET piece == board[move[1][1]][move[1][2]]
  IN [[board EXCEPT ![move[1][1]][move[1][2]] = None]
        EXCEPT ![move[2][1]][move[2][2]] = piece]

make_move(board, move) ==
  LET r1 == move[1][1]
      c1 == move[1][2]
      r2 == move[2][1]
      c2 == move[2][2]
      piece == board[r1][c1]
      b1 == [board EXCEPT ![r1][c1] = None]
      b2 == [b1 EXCEPT ![r2][c2] = piece]
      b3 == IF piece # None /\ piece.kind = "P" /\ piece.color = "w" /\ r2 = 0
            THEN [b2 EXCEPT ![r2][c2] = Piece("w", "Q")]
            ELSE b2
      b4 == IF piece # None /\ piece.kind = "P" /\ piece.color = "b" /\ r2 = ROWS - 1
            THEN [b3 EXCEPT ![r2][c2] = Piece("b", "Q")]
            ELSE b3
  IN b4

(***************************************************************************)
(* generate_legal_moves                                                    *)
(***************************************************************************)
\* Variant: the legality filter is skipped.
generate_legal_moves_unfiltered(board, color) ==
  generate_pseudo_legal_moves(board, color)

generate_legal_moves(board, color) ==
  LET keeps(m) == ~is_in_check(make_move(board, m), color)
  IN SelectSeq(generate_pseudo_legal_moves(board, color), keeps)

(***************************************************************************)
(* AI: one-ply material evaluation                                         *)
(***************************************************************************)
\* Variant: the colour is ignored.
piece_score_unsigned(p) ==
  IF p = None THEN 0 ELSE PIECE_VALUES[p.kind]

piece_score(p) ==
  IF p = None THEN 0
  ELSE IF p.color = "w" THEN PIECE_VALUES[p.kind]
  ELSE 0 - PIECE_VALUES[p.kind]

\* The inner loop "for c in range(COLS)" from column c on.
RECURSIVE material_row(_, _, _)
material_row(board, r, c) ==
  IF c >= COLS THEN 0
  ELSE piece_score(board[r][c]) + material_row(board, r, c + 1)

\* The outer loop "for r in range(ROWS)" from row r on.
RECURSIVE material_rows(_, _)
material_rows(board, r) ==
  IF r >= ROWS THEN 0
  ELSE material_row(board, r, 0) + material_rows(board, r + 1)

evaluate_material(board) == material_rows(board, 0)

\* Variant: a tie replaces the list of best moves instead of extending it.
RECURSIVE best_scan_last(_, _, _, _, _)
best_scan_last(board, sign, legal, i, acc) ==
  IF i > Len(legal) THEN acc
  ELSE LET m == legal[i]
           sc == evaluate_material(make_move(board, m)) * sign
       IN IF ~acc.has \/ sc >= acc.best_score
          THEN best_scan_last(board, sign, legal, i + 1,
                              [has |-> TRUE, best_score |-> sc, best_moves |-> <<m>>])
          ELSE best_scan_last(board, sign, legal, i + 1, acc)

\* The loop of ai_choose_move over legal[i..]: acc is [has, best_score, best_moves].
RECURSIVE best_scan(_, _, _, _, _)
best_scan(board, sign, legal, i, acc) ==
  IF i > Len(legal) THEN acc
  ELSE LET m == legal[i]
           sc == evaluate_material(make_move(board, m)) * sign
       IN IF ~acc.has \/ sc > acc.best_score
          THEN best_scan(board, sign, legal, i + 1,
                         [has |-> TRUE, best_score |-> sc, best_moves |-> <<m>>])
          ELSE IF sc = acc.best_score
          THEN best_scan(board, sign, legal, i + 1,
                         [acc EXCEPT !.best_moves = Append(@, m)])
          ELSE best_scan(board, sign, legal, i + 1, acc)

\* Variant: the candidates are the pseudo-legal moves.
ai_choose_move_pseudo(board, color) ==
  LET legal == generate_pseudo_legal_moves(board, color)
  IN IF legal = << >> THEN {NoMove}
     ELSE LET sign == IF color = "w" THEN 1 ELSE -1
              res == best_scan(board, sign, legal, 1,
                               [has |-> FALSE, best_score |-> 0, best_moves |-> << >>])
          IN Range(res.best_moves)

\* ai_choose_move: the set of values the call can return (random.choice).
ai_choose_move(board, color) ==
  LET legal == generate_legal_moves(board, color)
  IN IF legal = << >> THEN {NoMove}
     ELSE LET sign == IF color = "w" THEN 1 ELSE -1
              res == best_scan(board, sign, legal, 1,
                               [has |-> FALSE, best_score |-> 0, best_moves |-> << >>])
          IN IF res.best_moves # << >> THEN Range(res.best_moves)
             ELSE Range(legal)


(***************************************************************************)
(* Bounds of the model                                                     *)
(***************************************************************************)
\* Moves applied by the controller since construction or the last restart;
\* once that many are applied the model takes no further click or AI move.
MaxPlies == 5
\* Calls of make_move chained on one input board.
MaxDepth == 1

\* The squares the mouse is clicked on: f2, f3, g2, g4, e2, e4, e7, e5, d5.
ClickSquares == { <<6, 5>>, <<5, 5>>, <<6, 6>>, <<4, 6>>, <<6, 4>>, <<4, 4>>,
                  <<1, 4>>, <<3, 4>>, <<3, 3>> }
\* The moves random.choice is seen to pick, where one of them is among the
\* best moves: e7-e5, d8-h4, g8-f6, b8-c6, d7-d5.
AiPicks == { << <<1, 4>>, <<3, 4>> >>, << <<0, 3>>, <<4, 7>> >>,
             << <<0, 6>>, <<2, 5>> >>, << <<0, 1>>, <<2, 2>> >>,
             << <<1, 3>>, <<3, 3>> >> }
\* The pixel at the centre of each click square.
ClickPositions ==
  { <<sq[2] * TILE_SIZE + TILE_SIZE \div 2, sq[1] * TILE_SIZE + TILE_SIZE \div 2>> :
      sq \in ClickSquares }

(***************************************************************************)
(* State: the fields of Game, and for the board functions the input board  *)
(* and colour (board, turn), the argument of the last make_move call       *)
(* (prev_board), and the value returned by ai_choose_move when the last    *)
(* step called it (ai_result: << >> if it did not, <<mv>> if it returned   *)
(* mv).                                                                    *)
(* last_move is the last move handed to make_move; plies counts them.      *)
(***************************************************************************)
VARIABLES board, turn, selected, legal_for_selected, game_over, result_text,
          last_move, plies, prev_board, ai_result

vars == <<board, turn, selected, legal_for_selected, game_over, result_text,
          last_move, plies, prev_board, ai_result>>

(***************************************************************************)
(* Game controller                                                         *)
(***************************************************************************)
\* Game.__init__
Init ==
  /\ board = initial_board
  /\ turn = "w"
  /\ selected = NoSquare
  /\ legal_for_selected = << >>
  /\ game_over = FALSE
  /\ result_text = ""
  /\ last_move = NoMove
  /\ plies = 0
  /\ prev_board = initial_board
  /\ ai_result = << >>

square_at_pixel(pos) ==
  LET c == pos[1] \div TILE_SIZE
      r == pos[2] \div TILE_SIZE
  IN IF in_bounds(r, c) THEN <<r, c>> ELSE NoSquare

\* The value of legal_for_selected after update_legals_for_selected().
update_legals_for_selected(b, t, sel) ==
  IF sel = NoSquare THEN << >>
  ELSE LET p == b[sel[1]][sel[2]]
       IN IF p = None \/ p.color # t THEN << >>
          ELSE LET all_legals == generate_legal_moves(b, t)
                   from_sel(m) == m[1] = sel
                   kept == SelectSeq(all_legals, from_sel)
               IN [i \in 1 .. Len(kept) |-> kept[i][2]]

\* Variant: the winner is the side that is checkmated.
check_game_end_loser(b, t, over, text) ==
  LET legal == generate_legal_moves(b, t)
  IN IF legal = << >>
     THEN IF is_in_check(b, t)
          THEN [game_over |-> TRUE,
                result_text |-> IF t = "w" THEN "Checkmate! White wins."
                                ELSE "Checkmate! Black wins."]
          ELSE [game_over |-> TRUE, result_text |-> "Stalemate! Draw."]
     ELSE [game_over |-> over, result_text |-> text]

\* The values of game_over and result_text after check_game_end().
check_game_end(b, t, over, text) ==
  LET legal == generate_legal_moves(b, t)
  IN IF legal = << >>
     THEN IF is_in_check(b, t)
          THEN [game_over |-> TRUE,
                result_text |-> IF t = "b" THEN "Checkmate! White wins."
                                ELSE "Checkmate! Black wins."]
          ELSE [game_over |-> TRUE, result_text |-> "Stalemate! Draw."]
     ELSE [game_over |-> over, result_text |-> text]

apply_move(move) ==
  LET nb == make_move(board, move)
      nt == Opp(turn)
      end == check_game_end(nb, nt, game_over, result_text)
  IN /\ plies < MaxPlies
     /\ board' = nb
     /\ selected' = NoSquare
     /\ legal_for_selected' = << >>
     /\ turn' = nt
     /\ game_over' = end.game_over
     /\ result_text' = end.result_text
     /\ last_move' = move
     /\ plies' = plies + 1
     /\ UNCHANGED <<prev_board, ai_result>>

Select(sq) ==
  /\ plies < MaxPlies
  /\ selected' = sq
  /\ legal_for_selected' = update_legals_for_selected(board, turn, sq)
  /\ UNCHANGED <<board, turn, game_over, result_text, last_move, plies,
                 prev_board, ai_result>>

Deselect ==
  /\ plies < MaxPlies
  /\ selected' = NoSquare
  /\ legal_for_selected' = << >>
  /\ UNCHANGED <<board, turn, game_over, result_text, last_move, plies,
                 prev_board, ai_result>>

\* Game.click without its first two lines (the return when game_over is set).
click_after_game_over(pos) ==
  LET sq == square_at_pixel(pos)
  IN IF sq = NoSquare THEN UNCHANGED vars
     ELSE LET p == board[sq[1]][sq[2]]
          IN IF selected # NoSquare
             THEN IF sq \in Range(legal_for_selected)
                  THEN apply_move(<<selected, sq>>)
                  ELSE IF p # None /\ p.color = turn
                       THEN Select(sq)
                       ELSE Deselect
             ELSE IF p # None /\ p.color = turn
                  THEN Select(sq)
                  ELSE UNCHANGED vars

\* Game.click
Click(pos) ==
  LET sq == square_at_pixel(pos)
  IN IF game_over \/ sq = NoSquare THEN UNCHANGED vars
     ELSE LET p == board[sq[1]][sq[2]]
          IN IF selected # NoSquare
             THEN IF sq \in Range(legal_for_selected)
                  THEN apply_move(<<selected, sq>>)
                  ELSE IF p # None /\ p.color = turn
                       THEN Select(sq)
                       ELSE Deselect
             ELSE IF p # None /\ p.color = turn
                  THEN Select(sq)
                  ELSE UNCHANGED vars

\* The outcomes of random.choice over best_moves that are explored.
Picked(choices) ==
  IF choices \cap AiPicks # {} THEN choices \cap AiPicks ELSE choices

\* Game.ai_move_if_needed
AiMoveIfNeeded ==
  IF game_over THEN UNCHANGED vars
  ELSE IF turn = "b"
       THEN \E mv \in Picked(ai_choose_move(board, "b")) :
              IF mv = NoMove
              THEN LET end == check_game_end(board, turn, game_over, result_text)
                   IN /\ game_over' = end.game_over
                      /\ result_text' = end.result_text
                      /\ UNCHANGED <<board, turn, selected, legal_for_selected,
                                     last_move, plies, prev_board, ai_result>>
              ELSE LET nb == make_move(board, mv)
                       end == check_game_end(nb, "w", game_over, result_text)
                   IN /\ plies < MaxPlies
                      /\ board' = nb
                      /\ turn' = "w"
                      /\ game_over' = end.game_over
                      /\ result_text' = end.result_text
                      /\ last_move' = mv
                      /\ plies' = plies + 1
                      /\ UNCHANGED <<selected, legal_for_selected,
                                     prev_board, ai_result>>
       ELSE UNCHANGED vars

\* Game.restart
Restart ==
  /\ board' = initial_board
  /\ turn' = "w"
  /\ selected' = NoSquare
  /\ legal_for_selected' = << >>
  /\ game_over' = FALSE
  /\ result_text' = ""
  /\ last_move' = NoMove
  /\ plies' = 0
  /\ UNCHANGED <<prev_board, ai_result>>

\* Game.run: the events of a frame in any number and order, then the AI step.
Next ==
  \/ \E pos \in ClickPositions : Click(pos)
  \/ AiMoveIfNeeded
  \/ Restart

Spec == Init /\ [][Next]_vars


(***************************************************************************)
(* The board functions on their own: the input board and colour are drawn  *)
(* from SeedBoards x Colours, make_move is applied to the pseudo-legal     *)
(* moves (the moves generate_legal_moves hands to it) and to the move      *)
(* ai_choose_move returns.                                                 *)
(***************************************************************************)
board_of(placed) ==
  [r \in Rows |-> [c \in Cols |->
     IF \E q \in placed : q[1] = r /\ q[2] = c
     THEN LET q == CHOOSE q \in placed : q[1] = r /\ q[2] = c
          IN Piece(q[3], q[4])
     ELSE None]]

\* Pawns one step from promotion, with and without a capture.
SeedPromotion ==
  board_of({ <<7, 4, "w", "K">>, <<0, 4, "b", "K">>,
             <<1, 0, "w", "P">>, <<0, 1, "b", "N">>,
             <<6, 7, "b", "P">>, <<7, 6, "w", "N">> })
\* Captures by both colours: the white rook takes a knight or a bishop, the
\* white knight a pawn, the black pawn the rook.
SeedCaptures ==
  board_of({ <<7, 6, "w", "K">>, <<0, 1, "b", "K">>,
             <<4, 3, "w", "R">>, <<4, 6, "b", "N">>, <<2, 3, "b", "B">>,
             <<3, 4, "b", "P">>, <<5, 5, "w", "N">> })
\* A pinned bishop: every move of it exposes the white king.
SeedPin ==
  board_of({ <<7, 4, "w", "K">>, <<6, 4, "w", "B">>, <<0, 4, "b", "R">>,
             <<0, 0, "b", "K">>, <<6, 0, "w", "P">> })
\* Black to move is stalemated.
SeedStalemate ==
  board_of({ <<0, 0, "b", "K">>, <<2, 1, "w", "Q">>, <<7, 7, "w", "K">> })
\* Black to move is checkmated; White to move can take the king.
SeedCheckmate ==
  board_of({ <<0, 7, "b", "K">>, <<1, 5, "b", "P">>, <<1, 6, "b", "P">>,
             <<1, 7, "b", "P">>, <<0, 0, "w", "R">>, <<7, 4, "w", "K">> })
\* A board without kings.
SeedNoKings ==
  board_of({ <<6, 2, "w", "P">>, <<5, 3, "b", "P">>,
             <<3, 3, "w", "N">>, <<2, 5, "b", "B">> })

SeedBoards == { SeedPromotion, SeedCaptures, SeedPin, SeedStalemate,
                SeedCheckmate, SeedNoKings }

InitFn ==
  /\ board \in SeedBoards
  /\ turn \in Colours
  /\ selected = NoSquare
  /\ legal_for_selected = << >>
  /\ game_over = FALSE
  /\ result_text = ""
  /\ last_move = NoMove
  /\ plies = 0
  /\ prev_board = board
  /\ ai_result = << >>

\* A call nb = make_move(board, m); the next call is on nb for the other colour.
FnMakeMove ==
  /\ plies < MaxDepth
  /\ \E m \in Range(generate_pseudo_legal_moves(board, turn)) :
       /\ prev_board' = board
       /\ board' = make_move(board, m)
       /\ last_move' = m
  /\ turn' = Opp(turn)
  /\ plies' = plies + 1
  /\ ai_result' = << >>
  /\ UNCHANGED <<selected, legal_for_selected, game_over, result_text>>

\* A call mv = ai_choose_move(board, turn) and, unless it returns None, the
\* call make_move(board, mv) its caller makes next.
FnAiChooseMove ==
  \E mv \in ai_choose_move(board, turn) :
    /\ ai_result' = <<mv>>
    /\ IF mv = NoMove
       THEN UNCHANGED <<board, turn, last_move, plies, prev_board>>
       ELSE /\ plies < MaxDepth
            /\ prev_board' = board
            /\ board' = make_move(board, mv)
            /\ last_move' = mv
            /\ turn' = Opp(turn)
            /\ plies' = plies + 1
    /\ UNCHANGED <<selected, legal_for_selected, game_over, result_text>>

NextFn == FnMakeMove \/ FnAiChooseMove

SpecFn == InitFn /\ [][NextFn]_vars


(***************************************************************************)
(* Properties                                                              *)
(***************************************************************************)
LastSrc == last_move[1]
LastDst == last_move[2]
\* The piece the last make_move call found on the source square.
LastPiece == prev_board[LastSrc[1]][LastSrc[2]]
\* What the last make_move call found on the destination square.
LastTarget == prev_board[LastDst[1]][LastDst[2]]
\* The last make_move call moved a pawn onto its promotion row.
LastPromotes ==
  /\ LastPiece.kind = "P"
  /\ \/ LastPiece.color = "w" /\ LastDst[1] = 0
     \/ LastPiece.color = "b" /\ LastDst[1] = 7

\* C1: for the board and the colour to move, no move of generate_legal_moves
\* leaves that colour's king attacked: is_in_check is false on the board
\* make_move returns.
C1_NoSelfCheck ==
  \A m \in Range(generate_legal_moves(board, turn)) :
    ~is_in_check(make_move(board, m), turn)

\* A board reached by a move on which the filter rejects a pseudo-legal move
\* and keeps another.
C1_Witness ==
  /\ plies > 0
  /\ generate_legal_moves(board, turn) # << >>
  /\ Len(generate_legal_moves(board, turn)) < Len(generate_pseudo_legal_moves(board, turn))

\* C7: after make_move the source square is empty, the destination holds a
\* Queen of the pawn's colour if a pawn reached row 0 (White) or row 7
\* (Black) and the moved piece unchanged otherwise, and every other square
\* is as it was.
C7_MoveApplied ==
  plies > 0 =>
    /\ board[LastSrc[1]][LastSrc[2]] = None
    /\ board[LastDst[1]][LastDst[2]] =
         IF LastPromotes THEN Piece(LastPiece.color, "Q") ELSE LastPiece
    /\ \A r \in Rows, c \in Cols :
         (<<r, c>> # LastSrc /\ <<r, c>> # LastDst) => board[r][c] = prev_board[r][c]

\* A pawn has captured onto its promotion row and became a queen.
C7_Witness ==
  /\ plies > 0
  /\ LastPromotes
  /\ LastTarget # None
  /\ board[LastDst[1]][LastDst[2]] = Piece(LastPiece.color, "Q")


\* The store after the last make_move call, made on the caller's board as
\* list object 1.
LastCall == make_move_store(store_of(prev_board), 1, last_move)

\* C4: make_move leaves its argument alone: after the call the argument
\* list refers to the same Piece objects, every cell of it holds the same
\* (colour, kind), the returned board is another list that shares no Piece
\* object with it, and the returned contents are the board the caller goes on
\* with.
C4_ArgumentUntouched ==
  plies > 0 =>
    /\ LastCall.ref # 1
    /\ LastCall.heap.boards[1] = store_of(prev_board).boards[1]
    /\ view(LastCall.heap, 1) = prev_board
    /\ piece_ids(LastCall.heap, LastCall.ref) \cap piece_ids(LastCall.heap, 1) = {}
    /\ view(LastCall.heap, LastCall.ref) = board

\* make_move has captured a piece: the returned board differs from the
\* argument on two squares.
C4_Witness ==
  /\ plies > 0
  /\ LastTarget # None
  /\ board # prev_board
  /\ view(LastCall.heap, 1) = prev_board

\* C8: ai_choose_move returns None only on a board where the colour has no
\* legal move, and a move it returns is one of generate_legal_moves for the
\* board and colour it was called with (so it never returns a move when
\* that list is empty).
C8_ChoiceIsLegal ==
  ai_result # << >> =>
    IF ai_result[1] = NoMove
    THEN generate_legal_moves(board, turn) = << >>
    ELSE ai_result[1] \in Range(generate_legal_moves(prev_board, Opp(turn)))

\* ai_choose_move returned a move on a board where some pseudo-legal move
\* is not legal.
C8_Witness ==
  /\ ai_result # << >>
  /\ ai_result[1] # NoMove
  /\ Len(generate_legal_moves(prev_board, Opp(turn)))
       < Len(generate_pseudo_legal_moves(prev_board, Opp(turn)))

\* ai_choose_move returned None.
C8_WitnessNone ==
  /\ ai_result = <<NoMove>>
  /\ generate_legal_moves(board, turn) = << >>

\* The material after move m, signed for the colour that moves.
SignedAfter(b, color, m) ==
  (IF color = "w" THEN 1 ELSE -1) * evaluate_material(make_move(b, m))

\* C9: the move ai_choose_move returns has a signed post-move material at
\* least that of every legal move, and every legal move with the same
\* signed material is a value the call can return.
C9_ChoiceIsBest ==
  (ai_result # << >> /\ ai_result[1] # NoMove) =>
    LET mover == Opp(turn)
        legal == Range(generate_legal_moves(prev_board, mover))
        best == SignedAfter(prev_board, mover, ai_result[1])
        returns == ai_choose_move(prev_board, mover)
    IN /\ \A m \in legal : best >= SignedAfter(prev_board, mover, m)
       /\ \A m \in legal :
            SignedAfter(prev_board, mover, m) = best => m \in returns

\* ai_choose_move returned a move that is strictly better than another
\* legal move and ties with a third.
C9_Witness ==
  /\ ai_result # << >>
  /\ ai_result[1] # NoMove
  /\ LET mover == Opp(turn)
         legal == Range(generate_legal_moves(prev_board, mover))
         best == SignedAfter(prev_board, mover, ai_result[1])
     IN /\ \E m \in legal : SignedAfter(prev_board, mover, m) < best
        /\ \E m \in legal : m # ai_result[1] /\ SignedAfter(prev_board, mover, m) = best

\* The piece values of the claim.
ClaimedValue(kind) ==
  CASE kind = "K" -> 0
    [] kind = "Q" -> 9
    [] kind = "R" -> 5
    [] kind = "B" -> 3
    [] kind = "N" -> 3
    [] kind = "P" -> 1

\* C10: the initial board scores 0; a move that does not promote changes
\* the score by +v when a White piece takes a Black piece of value v, by -v
\* when a Black piece takes a White piece of value v, and not at all when
\* the destination was empty.
C10_MaterialDelta ==
  /\ evaluate_material(initial_board) = 0
  /\ (plies > 0 /\ ~LastPromotes) =>
       /\ (LastPiece.color = "w" /\ LastTarget.color = "b") =>
            evaluate_material(board)
              = evaluate_material(prev_board) + ClaimedValue(LastTarget.kind)
       /\ (LastPiece.color = "b" /\ LastTarget.color = "w") =>
            evaluate_material(board)
              = evaluate_material(prev_board) - ClaimedValue(LastTarget.kind)
       /\ LastTarget = None =>
            evaluate_material(board) = evaluate_material(prev_board)

\* A White piece has taken a Black knight and the score went up by 3.
C10_Witness ==
  /\ plies > 0
  /\ ~LastPromotes
  /\ LastPiece.color = "w"
  /\ LastTarget = Piece("b", "N")
  /\ evaluate_material(board) = evaluate_material(prev_board) + 3


\* C2: in every state of the controller game_over holds exactly when the
\* side to move has no legal move; the result is then checkmate won by the
\* colour opposite to turn if the side to move is in check and stalemate if
\* it is not, and the game is ongoing with no result otherwise.
C2_Classified ==
  LET stuck == generate_legal_moves(board, turn) = << >>
  IN /\ game_over <=> stuck
     /\ stuck =>
          IF is_in_check(board, turn)
          THEN result_text = (IF turn = "w" THEN "Checkmate! Black wins."
                              ELSE "Checkmate! White wins.")
          ELSE result_text = "Stalemate! Draw."
     /\ ~stuck => result_text = ""

\* A move has been applied after which the side to move is checkmated.
C2_Witness ==
  /\ plies > 0
  /\ game_over
  /\ is_in_check(board, turn)
  /\ result_text = "Checkmate! Black wins."

\* C3: every move the controller applies is one of generate_legal_moves for
\* the board and the side to move at the moment it is applied.
C3_AppliedMovesAreLegal ==
  [][plies' = plies + 1 =>
       last_move' \in Range(generate_legal_moves(board, turn))]_vars

\* The fool's mate: f2-f3, e7-e5, g2-g4, d8-h4.
FoolsMateMoves ==
  << << <<6, 5>>, <<5, 5>> >>, << <<1, 4>>, <<3, 4>> >>,
     << <<6, 6>>, <<4, 6>> >>, << <<0, 3>>, <<4, 7>> >> >>

\* The boards they lead through, from the initial one.
FoolsMateBoards ==
  LET b0 == initial_board
      b1 == make_move(b0, FoolsMateMoves[1])
      b2 == make_move(b1, FoolsMateMoves[2])
      b3 == make_move(b2, FoolsMateMoves[3])
      b4 == make_move(b3, FoolsMateMoves[4])
  IN <<b0, b1, b2, b3, b4>>

FoolsMateBoard == FoolsMateBoards[5]

\* C5: whenever the game stands after the first n - 1 moves of the fool's
\* mate, the n-th is a legal move of the side to move; after all four
\* White has no legal move and is in check, and the controller has
\* classified the position as checkmate won by Black.
C5_FoolsMate ==
  /\ \A n \in 1 .. 4 :
       (board = FoolsMateBoards[n] /\ turn = (IF n % 2 = 1 THEN "w" ELSE "b")) =>
         FoolsMateMoves[n] \in Range(generate_legal_moves(board, turn))
  /\ (board = FoolsMateBoard /\ turn = "w") =>
       /\ generate_legal_moves(board, "w") = << >>
       /\ is_in_check(board, "w")
       /\ game_over
       /\ result_text = "Checkmate! Black wins."

\* The controller has played the fool's mate: d8-h4 was the fourth move.
C5_Witness ==
  /\ board = FoolsMateBoard
  /\ turn = "w"
  /\ plies = 4
  /\ last_move = FoolsMateMoves[4]

\* The number of pieces of a colour on a board.
CountOf(b, color) ==
  Cardinality({sq \in Range(Squares) : b[sq[1]][sq[2]].color = color})

\* C6: as long as no move is applied the board is the initial one: 16 White
\* and 16 Black pieces, Black pawns on row 1 and White pawns on row 6, the
\* Black king at (0,4) and the White king at (7,4), and White has exactly 20
\* legal moves.
C6_InitialPosition ==
  plies = 0 =>
    /\ CountOf(board, "w") = 16
    /\ CountOf(board, "b") = 16
    /\ \A c \in Cols : board[1][c] = Piece("b", "P") /\ board[6][c] = Piece("w", "P")
    /\ board[0][4] = Piece("b", "K")
    /\ board[7][4] = Piece("w", "K")
    /\ Len(generate_legal_moves(board, "w")) = 20

\* The initial position with a pawn selected and its two moves on offer.
C6_Witness ==
  /\ plies = 0
  /\ turn = "w"
  /\ selected = <<6, 5>>
  /\ Len(legal_for_selected) = 2

\* C11: from a state with game_over set, a step either leaves board, turn,
\* the selection, game_over and the result text as they are (a click, an AI
\* step) or is restart(): the initial board, White to move, no selection,
\* game_over false.
C11_GameOverFreezes ==
  [][game_over =>
       \/ /\ board' = board
          /\ turn' = turn
          /\ selected' = selected
          /\ legal_for_selected' = legal_for_selected
          /\ game_over'
          /\ result_text' = result_text
       \/ /\ board' = initial_board
          /\ turn' = "w"
          /\ selected' = NoSquare
          /\ legal_for_selected' = << >>
          /\ ~game_over']_vars

\* The game is over with a square still selected and moves on offer for it,
\* at a point where a click would otherwise be taken.
C11_Witness ==
  /\ game_over
  /\ plies < MaxPlies
  /\ selected # NoSquare
  /\ legal_for_selected # << >>

(***************************************************************************)
(* Legal play: from initial_board(), White first, the two sides alternately*)
(* apply with make_move a move taken from generate_legal_moves.            *)
(***************************************************************************)
\* Moves applied from the initial board.
MaxGame == 6

\* The squares the moves played go from and to: e2, e4, d1, e1, h5, f7, f6,
\* g7, g6, e8, e7, h7, d7, d5, f1, b5, c7, c6, c8, d8.
PlaySquares == { <<6, 4>>, <<4, 4>>, <<7, 3>>, <<7, 4>>, <<3, 7>>, <<1, 5>>,
                 <<2, 5>>, <<1, 6>>, <<2, 6>>, <<0, 4>>, <<1, 4>>, <<1, 7>>,
                 <<1, 3>>, <<3, 3>>, <<7, 5>>, <<3, 1>>, <<1, 2>>, <<2, 2>>,
                 <<0, 2>>, <<0, 3>> }

InitPlay ==
  /\ board = initial_board
  /\ turn = "w"
  /\ selected = NoSquare
  /\ legal_for_selected = << >>
  /\ game_over = FALSE
  /\ result_text = ""
  /\ last_move = NoMove
  /\ plies = 0
  /\ prev_board = initial_board
  /\ ai_result = << >>

\* board = make_move(board, m) for a legal move m of the side to move.
PlayLegalMove ==
  /\ plies < MaxGame
  /\ \E m \in Range(generate_legal_moves(board, turn)) :
       /\ m[1] \in PlaySquares
       /\ m[2] \in PlaySquares
       /\ prev_board' = board
       /\ board' = make_move(board, m)
       /\ last_move' = m
  /\ turn' = Opp(turn)
  /\ plies' = plies + 1
  /\ UNCHANGED <<selected, legal_for_selected, game_over, result_text,
                 ai_result>>

NextPlay == PlayLegalMove

SpecPlay == InitPlay /\ [][NextPlay]_vars

\* The number of kings of a colour on a board.
KingsOf(b, color) ==
  Cardinality({sq \in Range(Squares) : b[sq[1]][sq[2]] = Piece(color, "K")})

\* C12: every position of legal play from the initial board holds exactly
\* one White king and exactly one Black king.
C12_OneKingEach ==
  /\ KingsOf(board, "w") = 1
  /\ KingsOf(board, "b") = 1

\* The side that moved was in check, some of its pseudo-legal moves were
\* rejected, and the move it played took a piece.
C12_Witness ==
  /\ plies > 0
  /\ is_in_check(prev_board, Opp(turn))
  /\ Len(generate_legal_moves(prev_board, Opp(turn)))
       < Len(generate_pseudo_legal_moves(prev_board, Opp(turn)))
  /\ prev_board[last_move[2][1]][last_move[2][2]] # None
  /\ KingsOf(board, "w") = 1
  /\ KingsOf(board, "b") = 1

====
